---- MODULE Spec2Model ----
(***************************************************************************)
(* GeoWatch analysis worker: the background job run_the_full_analysis      *)
(* (analysis-worker/main.py), the export stage (app/services/storage.py)   *)
(* and the callback client (app/services/callback_client.py).              *)
(*                                                                         *)
(* Jobs are handed to the worker one after the other; the Earth Engine     *)
(* "initialised" flag is the only state that survives from job to job.     *)
(* Strings built with f-strings are modelled as sequences of their parts,  *)
(* so that "the message mentions X" is a membership test.                  *)
(* An Optional field is <<>> for None and <<v>> for a value v.             *)
(*                                                                         *)
(* settings.BACKEND_ENV and settings.GCS_BUCKET_NAME are read by the       *)
(* worker (callback_client.py:82, main.py:123) but app/config.py declares  *)
(* neither, and main.py imports fetch_sentinel2_images while               *)
(* earth_engine.py defines _fetch_sentinel2_images.  The model takes the   *)
(* names as resolved: BACKEND_ENV is a deployment input, and the fetch     *)
(* stage is _fetch_sentinel2_images.                                       *)
(*                                                                         *)
(* Specifications:                                                         *)
(*   Spec         the worker's jobs, one after the other;                  *)
(*   SpecClock    one job, with the wall clock of its export stage;        *)
(*   SpecChange   compute_change_products over every small region;         *)
(*   SpecBackend  the backend's trigger and callback handlers over the     *)
(*                Firestore collections, with the report worker.           *)
(* Numbers that Python holds as floats are exact fractions here.           *)
(***************************************************************************)
EXTENDS Integers, Sequences, FiniteSets, TLC

VARIABLES
    BACKEND_ENV,      \* settings.BACKEND_ENV, fixed for the process
    EE_INITIALIZED,   \* earth_engine._EE_INITIALIZED
    jobsRun,          \* number of jobs accepted so far
    pc,               \* position of the current job in run_the_full_analysis
    payload,          \* the AnalysisPayload of the current job
    final_payload,    \* the CallbackPayload being built
    exc,              \* the exception in flight (its str()), <<>> when none
    stageLog,         \* the pipeline stages started by the current job, in order
    imagery,          \* what the image collections held when they were fetched
    answers,          \* what the platform answered to compute_change_products
    results,          \* what compute_change_products returned, <<>> before
    tasks,            \* state of the Earth Engine export task of each product
    submitLog,        \* products whose task was started, in order
    polled,           \* products whose task status was read at least once
    exportKey,        \* index in the export loop (1..5), 0 outside the stage
    elapsed,          \* seconds since start_time while an export is polled
    urls,             \* urls dict of export_analysis_images_to_gcs
    attempt,          \* send_callback: loop variable, 0 outside the loop
    backoff,          \* send_callback: next backoff in seconds
    posts,            \* POSTs made for the current job: [body, outcome]
    sleeps,           \* asyncio.sleep durations of the current send_callback
    cbRaised,         \* an exception escaped send_callback
    crashed,          \* an exception escaped run_the_full_analysis
    clock,            \* seconds slept since the export stage began
    backend_env,      \* the backend's settings.BACKEND_ENV
    monitoring_areas, \* Firestore collection 'monitoring_areas', by document id
    analysis_results, \* Firestore collection 'analysis_results', by document id
    reports,          \* the reports the report worker has saved
    report_seq,       \* number of report ids drawn so far
    now,              \* the backend's clock, for the documents' timestamps
    workerRequests,   \* bodies of the POSTs the backend made to the worker
    lastCallback,     \* the analysis callback handled by the latest step, if any
    response,         \* the answer of the latest call of an HTTP endpoint
    utcnow,           \* datetime.utcnow() of the window selector, if it ran
    windows,          \* the four dates the window selector derived from it
    polygon_list,     \* the list handed to _build_geometry, as it is now
    geometry,         \* what _build_geometry was given and what it made of it
    create_request,   \* the body of the latest POST /monitoring-areas, if any
    threads           \* the locals of each concurrent run_the_full_analysis

vars == << BACKEND_ENV, EE_INITIALIZED, jobsRun, pc, payload, final_payload,
           exc, stageLog, results, tasks, submitLog, polled,
           exportKey, elapsed, urls, attempt, backoff, posts, sleeps,
           cbRaised, crashed, imagery, answers, clock, backend_env,
           monitoring_areas, analysis_results, reports, report_seq, now,
           workerRequests, lastCallback, response, utcnow, windows,
           polygon_list, geometry, create_request, threads >>

jobVars == << payload, final_payload, exc, stageLog, results >>
exportVars == << tasks, submitLog, polled, exportKey, elapsed, urls >>
sendVars == << attempt, backoff, posts, sleeps, cbRaised >>
workerVars == << BACKEND_ENV, EE_INITIALIZED, jobsRun, pc, jobVars, exportVars,
                sendVars, crashed, imagery, answers >>
backendVars == << backend_env, monitoring_areas, analysis_results, reports,
                 report_seq, now, workerRequests, lastCallback >>
callVars == << utcnow, windows, polygon_list, geometry, create_request,
              threads >>

-----------------------------------------------------------------------------
(* Bounds of the model *)

MaxJobs == 2

(* Inputs *)

ResultIds == {"r1", "r2"}
AreaIds == {"a1"}
\* the ids of the documents of 'monitoring_areas': the areas requests name,
\* and one more that no request of the model names
StoredAreaIds == AreaIds \cup {"a0"}
Types == {"forest", "water", "desert"}
Polygons == { <<>>, << <<0, 0>>, <<0, 1>>, <<1, 1>> >> }
Envs == {"local", "production"}

-----------------------------------------------------------------------------
(* Program constants *)

\* mutant: one attempt too many
max_attempts_plus_one == 3 + 1

max_attempts == 3
HTTP_202_ACCEPTED == 202
initial_backoff == 1
max_wait_seconds == 300
poll_interval == 5

\* keys of the paths dict, in insertion order
Products == << "baseline_image", "current_image", "baseline_computed",
               "current_computed", "difference_image" >>

ProductSet == { Products[i] : i \in 1..Len(Products) }

None == << >>
Some(v) == << v >>

Mentions(msg, tok) == \E i \in 1..Len(msg) : msg[i] = tok

\* CallbackPayload(result_id=..., status=...): the other fields default to None
CallbackPayload(rid, st) ==
    [ result_id |-> rid, status |-> st, error_message |-> None,
      image_urls |-> None, metrics |-> None, bounds |-> None ]

\* payload.model_dump(): the JSON body of the POST
model_dump(p) ==
    [ result_id |-> p.result_id, status |-> p.status,
      error_message |-> p.error_message, image_urls |-> p.image_urls,
      metrics |-> p.metrics, bounds |-> p.bounds ]

NoTasks == [ k \in ProductSet |-> "UNSUBMITTED" ]

\* no function has been called on its own
NoCalls ==
    /\ utcnow = None
    /\ windows = None
    /\ polygon_list = << >>
    /\ geometry = None
    /\ create_request = None
    /\ threads = << >>

WorkerInit ==
    /\ BACKEND_ENV \in Envs
    /\ EE_INITIALIZED = FALSE
    /\ jobsRun = 0
    /\ pc = "idle"
    /\ payload = None
    /\ final_payload = None
    /\ exc = None
    /\ stageLog = << >>
    /\ results = None
    /\ tasks = NoTasks
    /\ submitLog = << >>
    /\ polled = {}
    /\ exportKey = 0
    /\ elapsed = 0
    /\ urls = << >>
    /\ attempt = 0
    /\ backoff = 0
    /\ posts = << >>
    /\ sleeps = << >>
    /\ cbRaised = FALSE
    /\ crashed = FALSE
    /\ imagery = "none"
    /\ answers = None
    /\ clock = 0

\* DocIds: the ids Firestore gives to new analysis_results documents
DocIds == {"p1", "p2"}

\* nothing stored, nothing sent, nothing answered
EmptyDatabase ==
    /\ monitoring_areas = [ a \in StoredAreaIds |-> None ]
    /\ analysis_results = [ r \in DocIds |-> None ]
    /\ reports = {}
    /\ report_seq = 0
    /\ now = 0
    /\ workerRequests = << >>
    /\ lastCallback = None
    /\ response = None

Init == WorkerInit /\ EmptyDatabase /\ NoCalls /\ backend_env = "local"

-----------------------------------------------------------------------------
(* POST /analyze: the job is queued as a background task *)

analyzeFrom(Rids, Tys, Polys, maxJobs) ==
    /\ pc \in {"idle", "done"}
    /\ jobsRun < maxJobs
    /\ \E rid \in Rids, aid \in AreaIds, ty \in Tys, poly \in Polys :
          payload' = Some([ area_id |-> aid, result_id |-> rid,
                            polygon |-> poly, type |-> ty ])
    /\ jobsRun' = jobsRun + 1
    /\ pc' = "queued"
    /\ final_payload' = None
    /\ exc' = None
    /\ stageLog' = << >>
    /\ results' = None
    /\ tasks' = NoTasks
    /\ submitLog' = << >>
    /\ polled' = {}
    /\ exportKey' = 0
    /\ elapsed' = 0
    /\ urls' = << >>
    /\ attempt' = 0
    /\ backoff' = 0
    /\ posts' = << >>
    /\ sleeps' = << >>
    /\ cbRaised' = FALSE
    /\ crashed' = FALSE
    /\ imagery' = "none"
    /\ answers' = None
    /\ response' = Some([ endpoint |-> "POST /analyze",
                           code |-> HTTP_202_ACCEPTED ])
    /\ UNCHANGED << BACKEND_ENV, EE_INITIALIZED >>

analyze == analyzeFrom(ResultIds, Types, Polygons, MaxJobs)

job == payload[1]

\* main.py:56
StartAnalysis ==
    /\ pc = "queued"
    /\ final_payload' = Some(CallbackPayload(job.result_id, "unknown"))
    /\ pc' = "init_ee"
    /\ UNCHANGED << BACKEND_ENV, imagery, answers, EE_INITIALIZED, jobsRun, payload, exc,
                    stageLog, results, exportVars, sendVars, crashed >>

-----------------------------------------------------------------------------
(* Stages 1-3 of run_the_full_analysis (main.py:58-107) *)

StageOrder == << "init_ee", "fetch", "compute", "export", "package" >>

Begin(log, stage) == Append(log, [ stage |-> stage, outcome |-> "running" ])
Mark(log, o) == [ log EXCEPT ![Len(log)].outcome = o ]

\* mutant: a stage's failure is swallowed and the pipeline goes on
StageExitSwallows(ok, next) == next

\* where control goes when a stage ends: the next statement of the try block,
\* or the except clause at main.py:140
StageExit(ok, next) == IF ok THEN next ELSE "except"

\* earth_engine.py:23-37; ee_ok: ee.Initialize() returns without raising
initialize_earth_engine(flag, ee_ok) ==
    IF flag THEN [ ret |-> TRUE, flag |-> TRUE ]
    ELSE IF ee_ok THEN [ ret |-> TRUE, flag |-> TRUE ]
    ELSE [ ret |-> FALSE, flag |-> FALSE ]

\* main.py:62-64
InitEarthEngine ==
    /\ pc = "init_ee"
    /\ \E ee_ok \in BOOLEAN :
         LET r == initialize_earth_engine(EE_INITIALIZED, ee_ok) IN
         /\ EE_INITIALIZED' = r.flag
         /\ pc' = StageExit(r.ret, "fetch")
         /\ exc' = IF r.ret THEN exc
                   ELSE << "Failed to initialise Earth Engine" >>
         /\ stageLog' = Mark(Begin(stageLog, "init_ee"),
                             IF r.ret THEN "ok" ELSE "raised")
    /\ UNCHANGED << BACKEND_ENV, imagery, answers, jobsRun, payload, final_payload, results,
                    exportVars, sendVars, crashed >>

\* period strings of the two composites (earth_engine.py:152)
baseline_date == "baseline_end"
current_date == "current_end"

\* "no_imagery": neither month holds an image of the region
FetchOutcomes == {"ok", "ee_error", "no_current", "no_baseline", "no_imagery"}

\* str() of the exception _fetch_sentinel2_images raises (earth_engine.py:43-44,
\* 121-125, 206-212), <<>> when it returns
fetch_error(polygon, outcome) ==
    IF polygon = << >> THEN << "Polygon must contain coordinates" >>
    ELSE IF outcome = "ee_error" THEN << "EEException" >>
    ELSE IF outcome \in {"no_current", "no_imagery"} THEN
        << "No Sentinel-2 data available for current period (",
           "current_start", " to ", "current_end", ")" >>
    ELSE IF outcome = "no_baseline" THEN
        << "No Sentinel-2 data available for baseline period (",
           "baseline_start", " to ", "baseline_end", ")" >>
    ELSE << >>

\* main.py:69-81
FetchImages ==
    /\ pc = "fetch"
    /\ \E outcome \in FetchOutcomes :
         LET e == fetch_error(job.polygon, outcome) IN
         /\ pc' = StageExit(e = << >>, "compute")
         /\ exc' = e
         /\ imagery' = IF job.polygon = << >> THEN "none" ELSE outcome
         /\ stageLog' = Mark(Begin(stageLog, "fetch"),
                             IF e = << >> THEN "ok" ELSE "raised")
    /\ UNCHANGED << BACKEND_ENV, answers, EE_INITIALIZED, jobsRun, payload,
                    final_payload, results, exportVars, sendVars, crashed >>

\* a Python float, kept as an exact fraction n/d
Float(n, d) == [ n |-> n, d |-> d ]

RECURSIVE GCD(_, _)
GCD(a, b) == IF b = 0 THEN a ELSE GCD(b, a % b)

Abs(x) == IF x < 0 THEN 0 - x ELSE x

\* the fraction n/d (d > 0) in lowest terms
Rat(n, d) ==
    LET g == GCD(Abs(n), d) IN Float(n \div g, d \div g)

RatAdd(a, b) == Rat(a.n * b.d + b.n * a.d, a.d * b.d)
RatSub(a, b) == Rat(a.n * b.d - b.n * a.d, a.d * b.d)
RatMul(a, b) == Rat(a.n * b.n, a.d * b.d)
\* a / b for b > 0
RatDiv(a, b) == Rat(a.n * b.d, a.d * b.n)
RatLt(a, b) == a.n * b.d < b.n * a.d
RatEq(a, b) == a.n * b.d = b.n * a.d

-----------------------------------------------------------------------------
(* The region as the imagery platform holds it: the pixels of the 10 m     *)
(* grid that touch the polygon.  Of each pixel: whether the baseline and   *)
(* the current composite are unmasked there (bvalid, cvalid), the value of *)
(* the classification (index > threshold) of each composite (bclass,       *)
(* cclass), and how the pixel lies in the polygon: "inside", or on the     *)
(* edge with its centre inside ("edge_in") or outside ("edge_out").        *)
(* Reducer.count() counts the unmasked pixels whose centre is inside;      *)
(* Reducer.sum() weights every unmasked pixel by the fraction of it that   *)
(* is inside.                                                              *)

NPixels == 2

Covers == {"inside", "edge_in", "edge_out"}

Pixel == [ bvalid : BOOLEAN, cvalid : BOOLEAN, bclass : {0, 1},
           cclass : {0, 1}, cover : Covers ]

Scenes == [ 1..NPixels -> Pixel ]

\* weight of a pixel in a weighted reduction
fraction(px) == IF px.cover = "inside" THEN Rat(1, 1) ELSE Rat(1, 2)

\* a pixel that an unweighted reduction sees
counted(px) == px.cover # "edge_out"

\* ee.Image.pixelArea().divide(10000) at scale=10 (earth_engine.py:259, 346)
pixel_area_ha == Rat(1, 100)

\* earth_engine.py:368
epsilon == Rat(1, 1000000)

\* earth_engine.py:289
combined_cloud_mask(px) == px.bvalid /\ px.cvalid

\* earth_engine.py:281-285: the classification of a composite, None where
\* the composite is masked
baseline_class(px) == IF px.bvalid THEN Some(px.bclass) ELSE None
current_class(px) == IF px.cvalid THEN Some(px.cclass) ELSE None

\* image.mask(): TRUE where the image is unmasked
mask(v) == v # None

\* earth_engine.py:314
combined_mask(px) ==
    combined_cloud_mask(px) /\ mask(baseline_class(px)) /\ mask(current_class(px))

\* image.updateMask(m)
updateMask(v, m) == IF mask(v) /\ m THEN v ELSE None

\* earth_engine.py:332-333
baseline_class_masked(px) == updateMask(baseline_class(px), combined_mask(px))
current_class_masked(px) == updateMask(current_class(px), combined_mask(px))

\* a.eq(x).And(b.eq(y)): masked where either operand is
eq_and(a, x, b, y) ==
    IF a = None \/ b = None THEN None
    ELSE Some(IF a[1] = x /\ b[1] = y THEN 1 ELSE 0)

\* mutant: classified in the baseline, whatever the current composite shows
stable_baseline_only(px) ==
    eq_and(baseline_class_masked(px), 1, baseline_class_masked(px), 1)

\* earth_engine.py:337-341
loss(px) == eq_and(baseline_class_masked(px), 1, current_class_masked(px), 0)
gain(px) == eq_and(baseline_class_masked(px), 0, current_class_masked(px), 1)
stable(px) == eq_and(baseline_class_masked(px), 1, current_class_masked(px), 1)

RECURSIVE RatSum(_)
RatSum(q) == IF q = << >> THEN Rat(0, 1) ELSE RatAdd(q[1], RatSum(Tail(q)))

\* earth_engine.py:292-297, 307: reduceRegion(count) of the baseline's B2
total_px(sc) ==
    RatSum([ i \in 1..Len(sc) |->
               IF sc[i].bvalid /\ counted(sc[i]) THEN Rat(1, 1) ELSE Rat(0, 1) ]).n

\* earth_engine.py:317-326: reduceRegion(sum) of combined_mask
classified_px(sc) ==
    RatSum([ i \in 1..Len(sc) |->
               IF combined_mask(sc[i]) THEN fraction(sc[i]) ELSE Rat(0, 1) ])

\* earth_engine.py:348-361: image is loss, gain or stable, pixel by pixel
sum_hectares(image, sc) ==
    RatSum([ i \in 1..Len(sc) |->
               IF image[i] = Some(1) THEN RatMul(pixel_area_ha, fraction(sc[i]))
               ELSE Rat(0, 1) ])

\* sample regions: no pixel unmasked in either composite; each composite
\* unmasked where the other is masked; classified in the baseline and not in
\* the current composite, everywhere
AllCloud ==
    [ i \in 1..NPixels |-> [ bvalid |-> FALSE, cvalid |-> FALSE, bclass |-> 0,
                             cclass |-> 0, cover |-> "inside" ] ]
Disjoint ==
    [ i \in 1..NPixels |-> [ bvalid |-> i = 1, cvalid |-> i # 1, bclass |-> 1,
                             cclass |-> 1, cover |-> "inside" ] ]
AllLoss ==
    [ i \in 1..NPixels |-> [ bvalid |-> TRUE, cvalid |-> TRUE, bclass |-> 1,
                             cclass |-> 0, cover |-> "inside" ] ]

\* what the imagery platform answers during compute_change_products: the
\* region it holds, and whether it answers in full ("none"), raises on a
\* getInfo() ("ee_error"), or answers null for the sum of combined_mask
\* ("null", earth_engine.py:326)
Oracles ==
    { [ fault |-> "none", scene |-> AllCloud ],
      [ fault |-> "none", scene |-> Disjoint ],
      [ fault |-> "none", scene |-> AllLoss ],
      [ fault |-> "ee_error", scene |-> AllCloud ],
      [ fault |-> "null", scene |-> AllLoss ] }

\* every region of NPixels pixels, answered in full
AllOracles == { [ fault |-> "none", scene |-> sc ] : sc \in Scenes }

\* mutant: None instead of 0.0 when the footprint has no pixels
valid_pixels_percentage_none(cpx, tpx) ==
    IF tpx > 0 THEN Some(RatMul(RatDiv(cpx[1], Rat(tpx, 1)), Rat(100, 1)))
    ELSE None

\* earth_engine.py:327
valid_pixels_percentage(cpx, tpx) ==
    IF tpx > 0 THEN Some(RatMul(RatDiv(cpx[1], Rat(tpx, 1)), Rat(100, 1)))
    ELSE Some(Rat(0, 1))

\* earth_engine.py:326: ee.Number(classified_pixels).getInfo()
classified_px_info(o) ==
    IF o.fault = "null" THEN None ELSE Some(classified_px(o.scene))

\* str() of the exception compute_change_products raises (earth_engine.py:247,
\* 307-327), <<>> when it returns
\* mutant: the classifier takes every type it does not know for 'water'
compute_error_any_type(type, o) ==
    IF o.fault = "ee_error" THEN << "EEException" >>
    ELSE IF total_px(o.scene) > 0 /\ classified_px_info(o) = None
    THEN << "unsupported operand type(s) for /: 'NoneType' and 'int'" >>
    ELSE << >>

compute_error(type, o) ==
    IF type \notin {"forest", "water"}
    THEN << "Unsupported classification type: ", type >>
    ELSE IF o.fault = "ee_error" THEN << "EEException" >>
    ELSE IF total_px(o.scene) > 0 /\ classified_px_info(o) = None
    THEN << "unsupported operand type(s) for /: 'NoneType' and 'int'" >>
    ELSE << >>

SetMin(S) == CHOOSE x \in S : \A y \in S : x <= y
SetMax(S) == CHOOSE x \in S : \A y \in S : x >= y

\* earth_engine.py:392-397: [west, south, east, north] of the ring
geometry_bounds(polygon) ==
    LET lons == { polygon[i][1] : i \in 1..Len(polygon) }
        lats == { polygon[i][2] : i \in 1..Len(polygon) }
    IN  << SetMin(lons), SetMin(lats), SetMax(lons), SetMax(lats) >>

\* mutant: the sum is reported as it is
total_hectares_unclamped(l, g, st) == RatAdd(RatAdd(l, g), st)

\* earth_engine.py:366-369
total_hectares(l, g, st) ==
    LET total == RatAdd(RatAdd(l, g), st)
    IN  IF RatLt(total, epsilon) THEN epsilon ELSE total

\* earth_engine.py:371-372
percentage(part, total) == RatMul(RatDiv(part, total), Rat(100, 1))

\* mutant: loss minus gain
net_change_percentage_reversed(gain_pct, loss_pct) == RatSub(loss_pct, gain_pct)

\* earth_engine.py:373
net_change_percentage(gain_pct, loss_pct) == RatSub(gain_pct, loss_pct)

\* v.multiply(255).unmask(0)
channel(v) == IF v = None THEN 0 ELSE v[1] * 255

\* earth_engine.py:376-380: per pixel, R = loss, G = stable, B = gain
visualization(sc) ==
    [ i \in 1..Len(sc) |->
        << channel(loss(sc[i])), channel(stable(sc[i])), channel(gain(sc[i])) >> ]

\* earth_engine.py:399-424: the 'metrics', 'images' (the difference image
\* only) and 'bounds' entries of the result
compute_change_products(polygon, type, o) ==
    LET sc == o.scene
        loss_hectares == sum_hectares([ i \in 1..Len(sc) |-> loss(sc[i]) ], sc)
        gain_hectares == sum_hectares([ i \in 1..Len(sc) |-> gain(sc[i]) ], sc)
        stable_hectares ==
            sum_hectares([ i \in 1..Len(sc) |-> stable(sc[i]) ], sc)
        total == total_hectares(loss_hectares, gain_hectares, stable_hectares)
        loss_percentage == percentage(loss_hectares, total)
        gain_percentage == percentage(gain_hectares, total)
    IN
    [ metrics |->
        [ analysis_type |-> type,
          baseline_date |-> baseline_date,
          current_date |-> current_date,
          baseline_cloud_coverage |-> Some(Rat(0, 1)),
          current_cloud_coverage |-> Some(Rat(0, 1)),
          valid_pixels_percentage |->
              valid_pixels_percentage(classified_px_info(o), total_px(sc)),
          loss_hectares |-> loss_hectares,
          gain_hectares |-> gain_hectares,
          stable_hectares |-> stable_hectares,
          total_hectares |-> total,
          loss_percentage |-> loss_percentage,
          gain_percentage |-> gain_percentage,
          net_change_percentage |->
              net_change_percentage(gain_percentage, loss_percentage) ],
      images |-> [ difference_image |-> visualization(sc) ],
      bounds |-> geometry_bounds(polygon) ]

\* main.py:86-107, with the platform's answers drawn from Os
ComputeChangeFrom(Os) ==
    /\ pc = "compute"
    /\ \E o \in Os :
         LET e == compute_error(job.type, o) IN
         /\ pc' = StageExit(e = << >>, "export")
         /\ exc' = e
         /\ answers' = Some(o)
         /\ results' = IF e = << >>
                       THEN Some(compute_change_products(job.polygon, job.type, o))
                       ELSE results
         /\ stageLog' = Mark(Begin(stageLog, "compute"),
                             IF e = << >> THEN "ok" ELSE "raised")
    /\ UNCHANGED << BACKEND_ENV, imagery, EE_INITIALIZED, jobsRun, payload,
                    final_payload, exportVars, sendVars, crashed >>

ComputeChange == ComputeChangeFrom(Oracles)

-----------------------------------------------------------------------------
(* Stage 4: export_analysis_images_to_gcs (storage.py:85-146) and
   _export_ee_image_to_gcs (storage.py:18-82) *)

bucket_name == "bucket"

\* storage.py:116-122
blob_path(key, area_id, result_id, type) ==
    CASE key = "baseline_image" ->
            << area_id, "/images/", baseline_date, "_sentinel", ".tif" >>
      [] key = "current_image" ->
            << area_id, "/images/", current_date, "_sentinel", ".tif" >>
      [] key = "baseline_computed" ->
            << area_id, "/computed/", baseline_date, "_", type, ".tif" >>
      [] key = "current_computed" ->
            << area_id, "/computed/", current_date, "_", type, ".tif" >>
      [] key = "difference_image" ->
            << area_id, "/comparisons/", result_id, "_diff", ".tif" >>

\* storage.py:79-80
public_url(path) ==
    LET final_blob_path == IF path[Len(path)] = ".tif" THEN path
                           ELSE Append(path, ".tif")
    IN  << "https://storage.googleapis.com/", bucket_name, "/" >> \o final_blob_path

\* storage.py:129
description(result_id, key) == << result_id, "_", key >>

\* states status['state'] may show for a started task, given the last one seen
Observable(s) ==
    IF s = "READY"
    THEN {"READY", "RUNNING", "COMPLETED", "FAILED", "CANCEL_REQUESTED", "CANCELLED"}
    ELSE {"RUNNING", "COMPLETED", "FAILED", "CANCEL_REQUESTED", "CANCELLED"}

ErrorTexts == {"Unknown error", "Internal error."}

\* mutant: a FAILED task ends the wait loop like a COMPLETED one
PollVerdictFailedBreaks(state, el) ==
    IF state \in {"COMPLETED", "FAILED"} THEN "break"
    ELSE IF state \in {"CANCELLED", "CANCEL_REQUESTED"} THEN "raise_cancelled"
    ELSE IF el > max_wait_seconds THEN "raise_timeout"
    ELSE "sleep"

\* mutant: the FAILED branch is missing, the loop keeps waiting
PollVerdictIgnoresFailed(state, el) ==
    IF state = "COMPLETED" THEN "break"
    ELSE IF state \in {"CANCELLED", "CANCEL_REQUESTED"} THEN "raise_cancelled"
    ELSE IF el > max_wait_seconds THEN "raise_timeout"
    ELSE "sleep"

\* storage.py:59-75: what the wait loop does with the state it read
PollVerdict(state, el) ==
    IF state = "COMPLETED" THEN "break"
    ELSE IF state = "FAILED" THEN "raise_failed"
    ELSE IF state \in {"CANCELLED", "CANCEL_REQUESTED"} THEN "raise_cancelled"
    ELSE IF el > max_wait_seconds THEN "raise_timeout"
    ELSE "sleep"

key == Products[exportKey]

\* main.py:112-124, storage.py:110-124: the GCS client is built, urls = {}
ExportBegin ==
    /\ pc = "export"
    /\ \E client_ok \in BOOLEAN :
         /\ pc' = StageExit(client_ok, "export_submit")
         /\ exc' = IF client_ok THEN exc ELSE << "DefaultCredentialsError" >>
         /\ stageLog' = IF client_ok THEN Begin(stageLog, "export")
                        ELSE Mark(Begin(stageLog, "export"), "raised")
         /\ exportKey' = IF client_ok THEN 1 ELSE 0
    /\ urls' = << >>
    /\ UNCHANGED << BACKEND_ENV, imagery, answers, EE_INITIALIZED, jobsRun, payload,
                    final_payload, results, tasks, submitLog, polled,
                    elapsed, sendVars, crashed >>

\* storage.py:127-139, 47-54: the next product's task is created and started
ExportSubmit ==
    /\ pc = "export_submit"
    /\ \E start_ok \in BOOLEAN :
         /\ tasks' = IF start_ok THEN [ tasks EXCEPT ![key] = "READY" ] ELSE tasks
         /\ submitLog' = IF start_ok THEN Append(submitLog, key) ELSE submitLog
         /\ pc' = StageExit(start_ok, "export_poll")
         /\ exc' = IF start_ok THEN exc ELSE << "EEException" >>
         /\ stageLog' = IF start_ok THEN stageLog ELSE Mark(stageLog, "raised")
         /\ exportKey' = IF start_ok THEN exportKey ELSE 0
    /\ elapsed' = 0
    /\ UNCHANGED << BACKEND_ENV, imagery, answers, EE_INITIALIZED, jobsRun, payload,
                    final_payload, results, polled,
                    urls, sendVars, crashed >>

\* storage.py:55-82, 140-146: one iteration of the wait loop of the current
\* product: read the status (task.status() may itself raise), then break,
\* raise, or sleep
ExportPoll ==
    /\ pc = "export_poll"
    /\ polled' = polled \cup {key}
    /\ \E state \in Observable(tasks[key]), text \in ErrorTexts, status_ok \in BOOLEAN :
         LET v == IF status_ok THEN PollVerdict(state, elapsed) ELSE "raise_status"
             d == description(job.result_id, key)
             last == exportKey = Len(Products)
         IN
         /\ tasks' = [ tasks EXCEPT
                         ![key] = IF v = "raise_timeout" THEN "CANCEL_REQUESTED"
                                  ELSE IF v = "raise_status" THEN @
                                  ELSE state ]
         /\ urls' = IF v = "break"
                    THEN urls \o << [ key |-> key,
                                      url |-> public_url(blob_path(key, job.area_id,
                                                  job.result_id, job.type)) ] >>
                    ELSE urls
         /\ elapsed' = IF v = "sleep" THEN elapsed + poll_interval ELSE 0
         /\ exportKey' = CASE v = "break" /\ ~last -> exportKey + 1
                          [] v = "sleep" -> exportKey
                          [] OTHER -> 0
         /\ pc' = CASE v = "break" -> IF last THEN StageExit(TRUE, "package")
                                      ELSE "export_submit"
                   [] v = "sleep" -> "export_poll"
                   [] OTHER -> StageExit(FALSE, "package")
         /\ exc' = CASE v = "raise_failed" ->
                           << "EE export failed for " >> \o d \o << ": ", text >>
                    [] v = "raise_cancelled" ->
                           << "EE export cancelled for " >> \o d
                    [] v = "raise_timeout" ->
                           << "Export timed out after ", "300", "s for " >> \o d
                    [] v = "raise_status" -> << "EEException" >>
                    [] OTHER -> exc
         /\ stageLog' = CASE v = "break" -> IF last THEN Mark(stageLog, "ok")
                                            ELSE stageLog
                         [] v = "sleep" -> stageLog
                         [] OTHER -> Mark(stageLog, "raised")
    /\ UNCHANGED << BACKEND_ENV, imagery, answers, EE_INITIALIZED, jobsRun, payload,
                    final_payload, results, submitLog, sendVars, crashed >>

-----------------------------------------------------------------------------
(* Stage 5 and the except clause of run_the_full_analysis (main.py:131-148) *)

\* ImageUrls(**image_urls_dict) validates: all five fields are required
ImageUrlsValid(u) == { u[i].key : i \in 1..Len(u) } = ProductSet

ImageUrls(u) ==
    [ k \in ProductSet |-> (CHOOSE i \in 1..Len(u) : u[i].key = k) ]

\* AnalysisMetrics(**metrics_dict) validates: a float field rejects None
AnalysisMetricsValid(m) ==
    /\ m.baseline_cloud_coverage # None
    /\ m.current_cloud_coverage # None
    /\ m.valid_pixels_percentage # None

\* main.py:133-136, statement by statement; error is <<>> when none raises
package(p, u, r) ==
    LET p1 == [ p EXCEPT !.status = "completed" ]
        p2 == [ p1 EXCEPT !.image_urls =
                   Some([ k \in ProductSet |-> u[ImageUrls(u)[k]].url ]) ]
        p3 == [ p2 EXCEPT !.metrics = Some(r.metrics) ]
        p4 == [ p3 EXCEPT !.bounds = Some(r.bounds) ]
    IN  IF ~ImageUrlsValid(u)
        THEN [ payload |-> p1, error |-> << "validation error for ImageUrls" >> ]
        ELSE IF ~AnalysisMetricsValid(r.metrics)
        THEN [ payload |-> p2, error |-> << "validation error for AnalysisMetrics" >> ]
        ELSE [ payload |-> p4, error |-> << >> ]

Package ==
    /\ pc = "package"
    /\ LET r == package(final_payload[1], urls, results[1]) IN
         /\ final_payload' = Some(r.payload)
         /\ exc' = r.error
         /\ pc' = StageExit(r.error = << >>, "finally")
         /\ stageLog' = Mark(Begin(stageLog, "package"),
                             IF r.error = << >> THEN "ok" ELSE "raised")
    /\ UNCHANGED << BACKEND_ENV, imagery, answers, EE_INITIALIZED, jobsRun, payload, results,
                    exportVars, sendVars, crashed >>

\* mutant: the except clause records the message but not the status
except_handler_keeps_status(p, e) ==
    [ p EXCEPT !.error_message = << "Analysis error: " >> \o e ]

\* main.py:140-148
except_handler(p, e) ==
    [ p EXCEPT !.status = "failed",
               !.error_message = << "Analysis error: " >> \o e ]

ExceptHandler ==
    /\ pc = "except"
    /\ final_payload' = Some(except_handler(final_payload[1], exc))
    /\ exc' = None
    /\ pc' = "finally"
    /\ UNCHANGED << BACKEND_ENV, imagery, answers, EE_INITIALIZED, jobsRun, payload, stageLog,
                    results, exportVars, sendVars, crashed >>

-----------------------------------------------------------------------------
(* The finally clause (main.py:150-165) and CallbackClient.send_callback
   (callback_client.py:65-194) *)

\* what one POST can end as: a status code, or an exception of client.post
PostOutcomes == {"200", "500", "ConnectError", "TransportError", "Exception"}

\* response.raise_for_status() (callback_client.py:106)
is_success(outcome) == outcome \in {"200"}

\* callback_client.py:126, 141, 156, 169
should_sleep(att) == att < max_attempts

\* mutant: the backoff is not doubled
next_backoff_constant(b) == b

\* callback_client.py:128, 143, 158, 171
next_backoff(b) == b * 2

\* mutant: the outer try lacks its last clause, except Exception
outer_catches_http_only(kind) == kind \in {"HTTPStatusError"}

\* callback_client.py:182-194: the clauses of the outer try
outer_catches(kind) == kind \in {"HTTPStatusError", "Exception"}

\* callback_client.py:77-97: the token is fetched unless the environment is
\* local; the retry loop is entered
SendCallbackBegin ==
    /\ pc = "finally"
    /\ \E token_ok \in BOOLEAN :
         IF BACKEND_ENV # "local" /\ ~token_ok
         THEN /\ pc' = "returned"
              /\ cbRaised' = ~outer_catches("Exception")
              /\ UNCHANGED << attempt, backoff >>
         ELSE /\ pc' = "post"
              /\ attempt' = 1
              /\ backoff' = initial_backoff
              /\ UNCHANGED cbRaised
    /\ UNCHANGED << BACKEND_ENV, imagery, answers, EE_INITIALIZED, jobsRun, jobVars, exportVars,
                    posts, sleeps, crashed >>

\* callback_client.py:97-181: one iteration of the retry loop
PostAttempt ==
    /\ pc = "post"
    /\ \E outcome \in PostOutcomes :
         /\ posts' = Append(posts, [ body |-> model_dump(final_payload[1]),
                                     outcome |-> outcome ])
         /\ IF is_success(outcome)
            THEN /\ pc' = "returned"
                 /\ UNCHANGED << attempt, backoff, sleeps >>
            ELSE /\ sleeps' = IF should_sleep(attempt)
                              THEN Append(sleeps, backoff) ELSE sleeps
                 /\ backoff' = IF should_sleep(attempt)
                               THEN next_backoff(backoff) ELSE backoff
                 /\ attempt' = IF attempt < max_attempts THEN attempt + 1
                               ELSE attempt
                 /\ pc' = IF attempt < max_attempts THEN "post" ELSE "returned"
    /\ UNCHANGED << BACKEND_ENV, imagery, answers, EE_INITIALIZED, jobsRun, jobVars, exportVars,
                    cbRaised, crashed >>

\* main.py:158-165: an exception of send_callback is caught and logged
finally_catches == TRUE

Return ==
    /\ pc = "returned"
    /\ pc' = "done"
    /\ crashed' = (cbRaised /\ ~finally_catches)
    /\ UNCHANGED << BACKEND_ENV, imagery, answers, EE_INITIALIZED, jobsRun, jobVars, exportVars,
                    sendVars >>

-----------------------------------------------------------------------------

Next ==
    \/ analyze /\ UNCHANGED << clock, callVars, backendVars >>
    \/ StartAnalysis /\ UNCHANGED << clock, callVars, backendVars, response >>
    \/ InitEarthEngine /\ UNCHANGED << clock, callVars, backendVars, response >>
    \/ FetchImages /\ UNCHANGED << clock, callVars, backendVars, response >>
    \/ ComputeChange /\ UNCHANGED << clock, callVars, backendVars, response >>
    \/ ExportBegin /\ UNCHANGED << clock, callVars, backendVars, response >>
    \/ ExportSubmit /\ UNCHANGED << clock, callVars, backendVars, response >>
    \/ ExportPoll /\ UNCHANGED << clock, callVars, backendVars, response >>
    \/ Package /\ UNCHANGED << clock, callVars, backendVars, response >>
    \/ ExceptHandler /\ UNCHANGED << clock, callVars, backendVars, response >>
    \/ SendCallbackBegin /\ UNCHANGED << clock, callVars, backendVars, response >>
    \/ PostAttempt /\ UNCHANGED << clock, callVars, backendVars, response >>
    \/ Return /\ UNCHANGED << clock, callVars, backendVars, response >>

Spec == Init /\ [][Next]_vars

-----------------------------------------------------------------------------
(* The export stage against the wall clock.  time.time() advances by the   *)
(* sleeps of the wait loop (storage.py:75); `clock` adds them up over the  *)
(* whole of export_analysis_images_to_gcs, `elapsed` over one product.     *)

ClockJobs == 1

analyzeClocked == analyzeFrom({"r1"}, {"forest"}, Polygons, ClockJobs)

\* storage.py:127: the stage begins
ExportBeginClocked == ExportBegin /\ clock' = 0

\* storage.py:50-54: start_time is taken afresh for every product
ExportSubmitClocked ==
    ExportSubmit /\ clock' = IF pc' = "export_poll" THEN clock ELSE 0

\* storage.py:75: time.sleep(5)
ExportPollClocked ==
    ExportPoll /\ clock' = CASE pc' = "export_poll" -> clock + poll_interval
                            [] pc' = "export_submit" -> clock
                            [] OTHER -> 0

NextClock ==
    \/ analyzeClocked /\ UNCHANGED << clock, callVars, backendVars >>
    \/ StartAnalysis /\ UNCHANGED << clock, callVars, backendVars, response >>
    \/ InitEarthEngine /\ UNCHANGED << clock, callVars, backendVars, response >>
    \/ FetchImages /\ UNCHANGED << clock, callVars, backendVars, response >>
    \/ ComputeChange /\ UNCHANGED << clock, callVars, backendVars, response >>
    \/ ExportBeginClocked /\ UNCHANGED << callVars, backendVars, response >>
    \/ ExportSubmitClocked /\ UNCHANGED << callVars, backendVars, response >>
    \/ ExportPollClocked /\ UNCHANGED << callVars, backendVars, response >>
    \/ Package /\ UNCHANGED << clock, callVars, backendVars, response >>
    \/ ExceptHandler /\ UNCHANGED << clock, callVars, backendVars, response >>
    \/ SendCallbackBegin /\ UNCHANGED << clock, callVars, backendVars, response >>
    \/ PostAttempt /\ UNCHANGED << clock, callVars, backendVars, response >>
    \/ Return /\ UNCHANGED << clock, callVars, backendVars, response >>

SpecClock == Init /\ [][NextClock]_vars

-----------------------------------------------------------------------------
(* compute_change_products alone: a job that has fetched its composites is *)
(* given any region of NPixels pixels.                                     *)

InitChange ==
    /\ BACKEND_ENV = "local"
    /\ EE_INITIALIZED = TRUE
    /\ jobsRun = 1
    /\ pc = "compute"
    /\ \E ty \in {"forest", "water"} :
          payload = Some([ area_id |-> "a1", result_id |-> "r1",
                           polygon |-> << <<0, 0>>, <<0, 1>>, <<1, 1>> >>,
                           type |-> ty ])
    /\ final_payload = Some(CallbackPayload("r1", "unknown"))
    /\ exc = None
    /\ stageLog = Mark(Begin(Mark(Begin(<< >>, "init_ee"), "ok"), "fetch"), "ok")
    /\ results = None
    /\ tasks = NoTasks
    /\ submitLog = << >>
    /\ polled = {}
    /\ exportKey = 0
    /\ elapsed = 0
    /\ urls = << >>
    /\ attempt = 0
    /\ backoff = 0
    /\ posts = << >>
    /\ sleeps = << >>
    /\ cbRaised = FALSE
    /\ crashed = FALSE
    /\ imagery = "ok"
    /\ answers = None
    /\ clock = 0
    /\ EmptyDatabase
    /\ NoCalls
    /\ backend_env = "local"

ComputeChangeAny == ComputeChangeFrom(AllOracles)

NextChange ==
    ComputeChangeAny /\ UNCHANGED << clock, callVars, backendVars, response >>

SpecChange == InitChange /\ [][NextChange]_vars

-----------------------------------------------------------------------------
(* The backend: POST /monitoring-areas/{area_id}/analyze                   *)
(* (routes/monitoring_areas.py), POST /callbacks/analysis-complete         *)
(* (routes/callbacks.py) and, called from it, the report worker            *)
(* (report-worker/main.py).  The Firestore database outlives the process:  *)
(* it may hold a monitoring area when the backend starts.  A handler runs  *)
(* from its first to its last statement in one step.                       *)

MaxReports == 2

AreaTypes == {"forest", "water"}

\* rectangle_to_polygon of a stored area: SW, NW, NE, SE as LatLng
StoredPolygon ==
    << [ lat |-> 0, lng |-> 10 ], [ lat |-> 1, lng |-> 10 ],
       [ lat |-> 1, lng |-> 11 ], [ lat |-> 0, lng |-> 11 ] >>

InitBackend ==
    /\ WorkerInit
    /\ NoCalls
    /\ BACKEND_ENV = "local"
    /\ backend_env \in Envs
    /\ monitoring_areas \in
          { f \in [ StoredAreaIds -> {None} \cup
                     { Some([ type |-> ty, status |-> "pending",
                              polygon |-> StoredPolygon ]) : ty \in AreaTypes } ] :
              f["a0"] = Some([ type |-> "water", status |-> "pending",
                               polygon |-> StoredPolygon ]) }
    /\ analysis_results = [ r \in DocIds |-> None ]
    /\ reports = {}
    /\ report_seq = 0
    /\ now = 0
    /\ workerRequests = << >>
    /\ lastCallback = None
    /\ response = None

\* utils/geometry.py:39-41
polygon_to_worker_coordinates(polygon) ==
    [ i \in 1..Len(polygon) |-> << polygon[i].lng, polygon[i].lat >> ]

\* the parameters of WorkerClient.trigger_analysis (worker_client.py:37-39)
trigger_analysis_params == {"area_id", "polygon", "area_type", "is_baseline"}

\* the keyword arguments of its calls (monitoring_areas.py:107-113, 371-377)
trigger_analysis_kwargs ==
    {"area_id", "result_id", "polygon", "area_type", "is_baseline"}

\* a call binds when every keyword names a parameter; else TypeError
binds(kwargs, params) == kwargs \subseteq params

\* worker_client.py:53-58: the JSON body of POST /analyze
worker_payload(area_id, polygon, area_type, is_baseline) ==
    [ area_id |-> area_id,
      polygon |-> polygon_to_worker_coordinates(polygon),
      type |-> area_type,
      is_baseline |-> is_baseline ]

\* firestore_service.py:155-160: the placeholder document
placeholder_data(id, area_id, area_type, timestamp) ==
    [ result_id |-> id, area_id |-> area_id, area_type |-> area_type,
      timestamp |-> timestamp, processing_status |-> "in_progress",
      error_message |-> None, image_urls |-> None, metrics |-> None,
      bounds |-> None, report_id |-> None, report_status |-> None ]

FreeDocIds == { r \in DocIds : analysis_results[r] = None }

\* mutant: a failure of the placeholder or of the worker call is surfaced
trigger_status_surfacing(failed) == IF failed THEN 500 ELSE 202

\* monitoring_areas.py:379-384: the failure is logged, the answer is 202
trigger_status(failed) == HTTP_202_ACCEPTED

\* monitoring_areas.py:329-384.  db_ok: the area can be read; placeholder_ok:
\* the placeholder can be written; worker_ok: the worker can be reached
trigger_new_analysis ==
    \E area_id \in AreaIds, db_ok \in BOOLEAN, placeholder_ok \in BOOLEAN,
       worker_ok \in BOOLEAN :
       LET area == monitoring_areas[area_id]
           found == db_ok /\ area # None
           created == found /\ placeholder_ok
           id == CHOOSE r \in FreeDocIds : TRUE
           called == created /\ binds(trigger_analysis_kwargs,
                                      trigger_analysis_params)
           failed == found /\ (~created \/ ~called \/ ~worker_ok)
       IN
       /\ created => FreeDocIds # {}
       /\ ~found => placeholder_ok
       /\ ~called => worker_ok
       /\ analysis_results' =
             IF created
             THEN [ analysis_results EXCEPT
                      ![id] = Some(placeholder_data(id, area_id, area[1].type,
                                                    now)) ]
             ELSE analysis_results
       /\ now' = IF created THEN now + 1 ELSE now
       /\ workerRequests' =
             IF called
             THEN Append(workerRequests,
                         worker_payload(area_id, area[1].polygon, area[1].type,
                                        FALSE))
             ELSE workerRequests
       /\ response' =
             Some([ endpoint |-> "POST /monitoring-areas/{area_id}/analyze",
                    code |-> IF ~db_ok THEN 500
                             ELSE IF area = None THEN 404
                             ELSE trigger_status(failed),
                    placeholder |-> IF ~found THEN "none"
                                    ELSE IF created THEN "created" ELSE "failed",
                    worker |-> IF ~created THEN "none"
                               ELSE IF ~called THEN "TypeError"
                               ELSE IF worker_ok THEN "accepted"
                               ELSE "unreachable" ])
       /\ lastCallback' = None
       /\ UNCHANGED << backend_env, monitoring_areas, reports, report_seq >>

\* the bodies the callback endpoint is given (callbacks.py:49-56); the
\* worker sends image_urls, metrics and bounds with 'completed' only, and
\* error_message with 'failed' only
CallbackBodies ==
    { [ result_id |-> r, status |-> st,
        error_message |-> IF st = "failed" THEN Some("error") ELSE None,
        image_urls |-> IF st = "completed" THEN Some("image_urls") ELSE None,
        metrics |-> IF st = "completed" THEN Some("metrics") ELSE None,
        bounds |-> IF st = "completed" THEN Some("bounds") ELSE None ] :
      r \in DocIds, st \in {"completed", "failed", "unknown"} }

\* callbacks.py:67-99
verify_oidc_token(authorization) ==
    backend_env = "local" \/ authorization = "Bearer"

\* callbacks.py:119-146 and firestore_service.py:133: doc_ref.update(update_data)
update_analysis_result(doc, p) ==
    LET completed == p.status = "completed" IN
    [ doc EXCEPT
        !.processing_status = p.status,
        !.image_urls = IF completed /\ p.image_urls # None THEN p.image_urls ELSE @,
        !.metrics = IF completed /\ p.metrics # None THEN p.metrics ELSE @,
        !.bounds = IF completed /\ p.bounds # None THEN p.bounds ELSE @,
        !.error_message = IF p.status = "failed" THEN p.error_message ELSE @ ]

\* mutant: the area is 'active' after every callback
area_status_always_active(status) == "active"

\* callbacks.py:150-154
area_status(status) == IF status = "completed" THEN "active" ELSE "error"

\* callbacks.py:239-246, firestore_service.py:225-236: the result of the area
\* with the latest timestamp
latest_result(docs, area_id) ==
    LET of_area == { r \in DocIds : docs[r] # None /\ docs[r][1].area_id = area_id }
    IN  IF of_area = {} THEN None
        ELSE Some(CHOOSE r \in of_area :
                    \A q \in of_area : docs[q][1].timestamp <= docs[r][1].timestamp)

\* what becomes of the POST to the report worker (callbacks.py:283-299,
\* report-worker/main.py:69-140)
ReportOutcomes == {"unreachable", "generated", "generation_failed"}

\* report-worker/main.py:80
report_id(n) == << "report_", n >>

\* callbacks.py:108-179 with _trigger_report_generation (223-299),
\* generate_report (report-worker/main.py:69-140) and report_complete_callback
\* (callbacks.py:192-220)
analysis_complete_callback ==
    \E p \in CallbackBodies, authorization \in {"none", "Bearer"},
       db_ok \in BOOLEAN, outcome \in ReportOutcomes :
       LET authorized == verify_oidc_token(authorization)
           doc == analysis_results[p.result_id]
           updated == authorized /\ db_ok /\ doc # None
           docs1 == [ analysis_results EXCEPT
                        ![p.result_id] = Some(update_analysis_result(doc[1], p)) ]
           area_id == doc[1].area_id
           area_found == monitoring_areas[area_id] # None
           to_area == updated /\ p.status \in {"completed", "failed"}
           wants_report == /\ updated /\ p.status = "completed" /\ area_found
                           /\ latest_result(docs1, area_id) = Some(p.result_id)
           report == IF wants_report THEN outcome ELSE "not_called"
           rid == report_id(report_seq + 1)
           code == IF ~authorized THEN 401
                   ELSE IF ~updated \/ (to_area /\ ~area_found) THEN 500
                   ELSE 200
       IN
       /\ report \in {"generated", "generation_failed"} => report_seq < MaxReports
       /\ ~wants_report => outcome = "unreachable"
       /\ ~authorized => db_ok
       /\ analysis_results' =
             IF ~updated THEN analysis_results
             ELSE IF report = "generated"
             THEN [ docs1 EXCEPT ![p.result_id] =
                      Some([ @[1] EXCEPT !.report_id = Some(rid),
                                         !.report_status = Some("completed") ]) ]
             ELSE IF report = "generation_failed"
             THEN [ docs1 EXCEPT ![p.result_id] =
                      Some([ @[1] EXCEPT !.report_id = Some(rid),
                                         !.report_status = Some("failed") ]) ]
             ELSE docs1
       /\ monitoring_areas' =
             IF to_area /\ area_found
             THEN [ monitoring_areas EXCEPT
                      ![area_id] = Some([ @[1] EXCEPT
                                            !.status = area_status(p.status) ]) ]
             ELSE monitoring_areas
       /\ reports' =
             IF report = "generated"
             THEN reports \cup {[ report_id |-> rid, area_id |-> area_id,
                                  result_id |-> p.result_id ]}
             ELSE reports
       /\ report_seq' = IF report \in {"generated", "generation_failed"}
                        THEN report_seq + 1 ELSE report_seq
       /\ response' = Some([ endpoint |-> "POST /callbacks/analysis-complete",
                              code |-> code,
                              result |-> IF ~authorized THEN "untouched"
                                         ELSE IF updated THEN "updated"
                                         ELSE "update_failed" ])
       /\ lastCallback' = IF code = 200
                          THEN Some([ body |-> p, report |-> report ])
                          ELSE None
       /\ UNCHANGED << backend_env, now, workerRequests >>

\* firestore_service.py:63-74: the document, None when there is none
get_monitoring_area(areas, area_id) == areas[area_id]

\* firestore_service.py:76-95: the user's areas whose status is not 'deleted'
\* (every area of the model is demo_user's)
get_all_monitoring_areas(areas) ==
    { a \in StoredAreaIds : areas[a] # None /\ areas[a][1].status # "deleted" }

\* monitoring_areas.py:444-486 and firestore_service.py:110-119
soft_delete_monitoring_area ==
    \E area_id \in AreaIds, db_ok \in BOOLEAN :
       LET area == get_monitoring_area(monitoring_areas, area_id)
           found == db_ok /\ area # None
       IN
       /\ monitoring_areas' =
             IF found
             THEN [ monitoring_areas EXCEPT
                      ![area_id] = Some([ @[1] EXCEPT !.status = "deleted" ]) ]
             ELSE monitoring_areas
       /\ response' = Some([ endpoint |-> "DELETE /monitoring-areas/{area_id}",
                              code |-> IF ~db_ok THEN 500
                                       ELSE IF area = None THEN 404
                                       ELSE 200 ])
       /\ lastCallback' = None
       /\ UNCHANGED << backend_env, analysis_results, reports, report_seq, now,
                       workerRequests >>

analyzeBackend ==
    analyzeFrom({"r1"}, {"forest"}, { << <<0, 0>>, <<0, 1>>, <<1, 1>> >> }, 1)

NextBackend ==
    \/ trigger_new_analysis /\ UNCHANGED << workerVars, clock, callVars >>
    \/ analysis_complete_callback /\ UNCHANGED << workerVars, clock, callVars >>
    \/ soft_delete_monitoring_area /\ UNCHANGED << workerVars, clock, callVars >>
    \/ analyzeBackend /\ lastCallback' = None
          /\ UNCHANGED << clock, callVars, backend_env, monitoring_areas,
                          analysis_results, reports, report_seq, now,
                          workerRequests >>

SpecBackend == InitBackend /\ [][NextBackend]_vars

-----------------------------------------------------------------------------
(* The window selector alone: the date arithmetic of                       *)
(* _fetch_sentinel2_images (earth_engine.py:177-194) and the date filter   *)
(* of _create_monthly_composite (earth_engine.py:114-119), for every       *)
(* datetime.utcnow() of the years FirstYear..LastYear.  A datetime is      *)
(* [year, month, day, hour]; a date string "%Y-%m-%d" is <<y, m, d>>.      *)

FirstYear == 2023
LastYear == 2024

\* the hours of the day that are told apart
Hours == {0, 23}

is_leap(y) == (y % 4 = 0 /\ y % 100 # 0) \/ y % 400 = 0

days_in_month(y, mo) ==
    IF mo = 2 THEN (IF is_leap(y) THEN 29 ELSE 28)
    ELSE IF mo \in {4, 6, 9, 11} THEN 30
    ELSE 31

Datetimes ==
    { [ year |-> y, month |-> mo, day |-> d, hour |-> h ] :
        y \in FirstYear..LastYear, mo \in 1..12, d \in 1..31, h \in Hours }
    \ { t \in [ year : FirstYear..LastYear, month : 1..12, day : 1..31,
                hour : Hours ] : t.day > days_in_month(t.year, t.month) }

\* datetime.replace(day=n)
replace_day(t, n) == [ t EXCEPT !.day = n ]

\* t - timedelta(days=1)
minus_one_day(t) ==
    IF t.day > 1 THEN [ t EXCEPT !.day = t.day - 1 ]
    ELSE IF t.month > 1
    THEN [ t EXCEPT !.month = t.month - 1,
                    !.day = days_in_month(t.year, t.month - 1) ]
    ELSE [ t EXCEPT !.year = t.year - 1, !.month = 12, !.day = 31 ]

\* t.strftime("%Y-%m-%d"): the time of day is dropped
strftime(t) == << t.year, t.month, t.day >>

\* the order of date strings "%Y-%m-%d", which is the order of the days
DateLt(a, b) ==
    \/ a[1] < b[1]
    \/ a[1] = b[1] /\ a[2] < b[2]
    \/ a[1] = b[1] /\ a[2] = b[2] /\ a[3] < b[3]

\* the days on which an image may have been acquired
Calendar ==
    { << y, mo, d >> \in
        ((FirstYear - 1)..LastYear) \X (1..12) \X (1..31) :
        d <= days_in_month(y, mo) }

\* ImageCollection.filterDate(start, end): the images acquired from start
\* (inclusive) to end (exclusive), each date string being its day's 00:00
filterDate(start, end) ==
    { d \in Calendar : ~DateLt(d, start) /\ DateLt(d, end) }

\* earth_engine.py:114-119: the acquisition days of the composite's collection
collection_days(start, end) == filterDate(strftime(start), strftime(end))

InitWindow ==
    /\ WorkerInit
    /\ EmptyDatabase
    /\ backend_env = "local"
    /\ BACKEND_ENV = "local"
    /\ utcnow \in { Some(t) : t \in Datetimes }
    /\ windows = None
    /\ polygon_list = << >>
    /\ geometry = None
    /\ create_request = None
    /\ threads = << >>

\* earth_engine.py:177-194
select_windows ==
    /\ windows = None
    /\ LET first_of_this_month == replace_day(utcnow[1], 1)
           last_of_prev_month == minus_one_day(first_of_this_month)
           first_of_prev_month == replace_day(last_of_prev_month, 1)
           first_of_baseline_month ==
               replace_day(minus_one_day(first_of_prev_month), 1)
           last_of_baseline_month == minus_one_day(first_of_prev_month)
       IN  windows' = Some([ current_start |-> first_of_prev_month,
                             current_end |-> last_of_prev_month,
                             baseline_start |-> first_of_baseline_month,
                             baseline_end |-> last_of_baseline_month ])
    /\ UNCHANGED << utcnow, polygon_list, geometry, create_request, threads >>

NextWindow ==
    select_windows /\ UNCHANGED << workerVars, clock, backendVars, response >>

SpecWindow == InitWindow /\ [][NextWindow]_vars

-----------------------------------------------------------------------------
(* _build_geometry alone (earth_engine.py:40-49), for every list of up to  *)
(* MaxVertices vertices.  The result records the ring handed to            *)
(* ee.Geometry.Polygon and the caller's list as the call leaves it.        *)

MaxVertices == 4

Vertices == { << 0, 0 >>, << 0, 1 >>, << 1, 1 >> }

VertexLists == UNION { [ 1..n -> Vertices ] : n \in 0..MaxVertices }

\* earth_engine.py:46: list(polygon) is a new list with the same elements
list_copy(l) == [ i \in 1..Len(l) |-> l[i] ]

\* earth_engine.py:40-49
build_geometry(polygon) ==
    IF polygon = << >>
    THEN [ raised |-> Some("Polygon must contain coordinates"),
           ring |-> None, polygon |-> polygon ]
    ELSE LET ring == list_copy(polygon) IN
         [ raised |-> None,
           ring |-> Some(IF ring[1] # ring[Len(ring)]
                         THEN Append(ring, ring[1]) ELSE ring),
           polygon |-> polygon ]

InitGeometry ==
    /\ WorkerInit
    /\ EmptyDatabase
    /\ backend_env = "local"
    /\ BACKEND_ENV = "local"
    /\ utcnow = None
    /\ windows = None
    /\ polygon_list \in VertexLists
    /\ geometry = None
    /\ create_request = None
    /\ threads = << >>

BuildGeometry ==
    /\ geometry = None
    /\ LET g == build_geometry(polygon_list) IN
          /\ geometry' = Some([ arg |-> polygon_list, raised |-> g.raised,
                                ring |-> g.ring ])
          /\ polygon_list' = g.polygon
    /\ UNCHANGED << utcnow, windows, create_request, threads >>

NextGeometry ==
    BuildGeometry /\ UNCHANGED << workerVars, clock, backendVars, response >>

SpecGeometry == InitGeometry /\ [][NextGeometry]_vars

-----------------------------------------------------------------------------
(* POST /monitoring-areas (routes/monitoring_areas.py:54-125) with          *)
(* validate_area_size (utils/validators.py:10-37).  A rectangle is given    *)
(* by the two distances geopy measures on it: the length of its southern    *)
(* edge and of its western edge, in km.                                      *)

\* the distances geodesic(...).km returns, as fractions
Kilometres ==
    { Rat(1, 2), Rat(1, 1), Rat(2, 1), Rat(5, 1), Rat(10, 1), Rat(20, 1),
      Rat(25, 1), Rat(50, 1), Rat(101, 1), Rat(501, 1) }

\* validators.py:10: the defaults of min_km2 and max_km2
min_km2 == Rat(1, 1)
max_km2 == Rat(100, 1)

\* validators.py:31
area_km2(width_km, height_km) == RatMul(width_km, height_km)

\* validators.py:33-37: the ValueError raised, None when the size is allowed
validate_area_size(width_km, height_km) ==
    LET a == area_km2(width_km, height_km) IN
    IF ~(~RatLt(a, min_km2) /\ ~RatLt(max_km2, a))
    THEN Some(<< "Monitoring area size must be between ", min_km2, " and ",
                 max_km2, " km2." >>)
    ELSE None

InitCreate ==
    /\ WorkerInit
    /\ NoCalls
    /\ BACKEND_ENV = "local"
    /\ backend_env \in Envs
    /\ EmptyDatabase

\* monitoring_areas.py:54-125.  The size is validated first (75-80, answer
\* 400).  For a size that is allowed the handler goes on to build
\* MonitoringAreaInDB (88-94), outside every try block; the argument
\* status=MonitoringAreaStatus.PENDING raises AttributeError, because
\* MonitoringAreaStatus is a typing.Literal (models/monitoring_area.py:28)
\* and has no member PENDING; the handler ends there and the framework
\* answers 500.  Lines 96-125 (the document,
\* the placeholder, the call of the worker) are not reached.
create_monitoring_area ==
    \E width_km \in Kilometres, height_km \in Kilometres, ty \in AreaTypes :
       LET e == validate_area_size(width_km, height_km) IN
       /\ create_request' = Some([ type |-> ty, width_km |-> width_km,
                                   height_km |-> height_km ])
       /\ response' =
             IF e # None
             THEN Some([ endpoint |-> "POST /monitoring-areas",
                         code |-> 400, detail |-> e[1] ])
             ELSE Some([ endpoint |-> "POST /monitoring-areas",
                         code |-> 500, detail |-> << "AttributeError" >> ])
       /\ lastCallback' = None
       /\ UNCHANGED << backend_env, monitoring_areas, analysis_results, reports,
                       report_seq, now, workerRequests >>

NextCreate ==
    create_monitoring_area
        /\ UNCHANGED << workerVars, clock, utcnow, windows, polygon_list,
                        geometry, threads >>

SpecCreate == InitCreate /\ [][NextCreate]_vars

-----------------------------------------------------------------------------
(* Two jobs at once.  run_the_full_analysis is a plain function, so the    *)
(* framework runs each background task on a thread of its pool; the        *)
(* threads share the module-level flag _EE_INITIALIZED and nothing else    *)
(* that is written (settings and callback_client are only read).  A step   *)
(* is taken by one thread; the flag is read (earth_engine.py:27) and       *)
(* written (earth_engine.py:33) in different steps.  Stages 2 to 5, which  *)
(* use only the job's locals and the platform, are one step.               *)

Threads == {"t1", "t2"}

\* the jobs the two threads may be given
ThreadJobs ==
    { [ area_id |-> "a1", result_id |-> rid,
        polygon |-> << <<0, 0>>, <<0, 1>>, <<1, 1>> >>, type |-> ty ] :
      rid \in ResultIds, ty \in {"forest", "desert"} }

\* a thread whose background task has not been queued
NoThread ==
    [ pc |-> "none", payload |-> None, final_payload |-> None, exc |-> None,
      ee |-> "none", stages |-> "none", posted |-> None ]

InitThreads ==
    /\ WorkerInit
    /\ EmptyDatabase
    /\ backend_env = "local"
    /\ BACKEND_ENV = "local"
    /\ utcnow = None
    /\ windows = None
    /\ polygon_list = << >>
    /\ geometry = None
    /\ create_request = None
    /\ threads = [ t \in Threads |-> NoThread ]

\* mutant: a failed initialisation clears the flag
flag_after_failure_cleared(flag) == FALSE

\* earth_engine.py:35-37: the except clause leaves the flag as it is
flag_after_failure(flag) == flag

\* main.py:168-199: the task is queued with its payload
ThreadQueue(t) ==
    /\ threads[t].pc = "none"
    /\ \E p \in ThreadJobs :
          threads' = [ threads EXCEPT ![t] = [ @ EXCEPT !.pc = "queued",
                                                        !.payload = Some(p) ] ]
    /\ UNCHANGED EE_INITIALIZED

\* main.py:55-56
ThreadStart(t) ==
    /\ threads[t].pc = "queued"
    /\ threads' = [ threads EXCEPT ![t] =
          [ @ EXCEPT !.pc = "init_check",
                     !.final_payload =
                         Some(CallbackPayload(threads[t].payload[1].result_id,
                                              "unknown")) ] ]
    /\ UNCHANGED EE_INITIALIZED

\* earth_engine.py:26-28: the flag is read
ThreadInitCheck(t) ==
    /\ threads[t].pc = "init_check"
    /\ threads' = [ threads EXCEPT ![t] =
          IF EE_INITIALIZED
          THEN [ @ EXCEPT !.pc = "stages", !.ee = "skipped" ]
          ELSE [ @ EXCEPT !.pc = "init_call" ] ]
    /\ UNCHANGED EE_INITIALIZED

\* earth_engine.py:30-37 and main.py:62-63
ThreadInitCall(t) ==
    /\ threads[t].pc = "init_call"
    /\ \E ee_ok \in BOOLEAN :
          /\ EE_INITIALIZED' = IF ee_ok THEN TRUE
                               ELSE flag_after_failure(EE_INITIALIZED)
          /\ threads' = [ threads EXCEPT ![t] =
                IF ee_ok
                THEN [ @ EXCEPT !.pc = "stages", !.ee = "ok" ]
                ELSE [ @ EXCEPT !.pc = "except", !.ee = "failed",
                                !.exc = << "Failed to initialise Earth Engine" >> ] ]

\* main.py:66-138: fetch, compute, export and package, on the job's locals
ThreadStages(t) ==
    /\ threads[t].pc = "stages"
    /\ \E platform_ok \in BOOLEAN :
          LET th == threads[t]
              p == th.payload[1]
              supported == p.type \in {"forest", "water"}
              ok == platform_ok /\ supported
              done == [ th.final_payload[1] EXCEPT
                          !.status = "completed",
                          !.image_urls =
                              Some([ k \in ProductSet |->
                                       public_url(blob_path(k, p.area_id,
                                                            p.result_id, p.type)) ]),
                          !.metrics = Some([ analysis_type |-> p.type ]),
                          !.bounds = Some(geometry_bounds(p.polygon)) ]
          IN
          threads' = [ threads EXCEPT ![t] =
              IF ok
              THEN [ @ EXCEPT !.pc = "finally", !.stages = "completed",
                              !.final_payload = Some(done) ]
              ELSE [ @ EXCEPT !.pc = "except", !.stages = "raised",
                              !.exc = IF ~platform_ok THEN << "EEException" >>
                                      ELSE << "Unsupported classification type: ",
                                              p.type >> ] ]
    /\ UNCHANGED EE_INITIALIZED

\* main.py:140-148
ThreadExcept(t) ==
    /\ threads[t].pc = "except"
    /\ threads' = [ threads EXCEPT ![t] =
          [ @ EXCEPT !.pc = "finally", !.exc = None,
                     !.final_payload =
                         Some(except_handler(threads[t].final_payload[1],
                                             threads[t].exc)) ] ]
    /\ UNCHANGED EE_INITIALIZED

\* main.py:150-165: the callback is sent
ThreadFinally(t) ==
    /\ threads[t].pc = "finally"
    /\ threads' = [ threads EXCEPT ![t] =
          [ @ EXCEPT !.pc = "done",
                     !.posted = Some(model_dump(threads[t].final_payload[1])) ] ]
    /\ UNCHANGED EE_INITIALIZED

ThreadRest ==
    UNCHANGED << BACKEND_ENV, jobsRun, pc, jobVars, exportVars, sendVars,
                 crashed, imagery, answers, clock, backendVars, response,
                 utcnow, windows, polygon_list, geometry, create_request >>

NextThreads ==
    \/ \E t \in Threads : ThreadQueue(t) /\ ThreadRest
    \/ \E t \in Threads : ThreadStart(t) /\ ThreadRest
    \/ \E t \in Threads : ThreadInitCheck(t) /\ ThreadRest
    \/ \E t \in Threads : ThreadInitCall(t) /\ ThreadRest
    \/ \E t \in Threads : ThreadStages(t) /\ ThreadRest
    \/ \E t \in Threads : ThreadExcept(t) /\ ThreadRest
    \/ \E t \in Threads : ThreadFinally(t) /\ ThreadRest

SpecThreads == InitThreads /\ [][NextThreads]_vars

-----------------------------------------------------------------------------
(* Properties *)

InCallback == pc \in {"finally", "post", "returned", "done"}

Outcomes == [ i \in 1..Len(posts) |-> posts[i].outcome ]

RECURSIVE SeqSum(_)
SeqSum(q) == IF q = << >> THEN 0 ELSE q[1] + SeqSum(Tail(q))

\* C1: callback-or-bust: when a job is over, at least one POST carrying its
\* result_id was made to the callback endpoint, whichever stage raised.
C1_CallbackOrBust ==
    pc = "done" =>
        \E i \in 1..Len(posts) : posts[i].body.result_id = job.result_id

\* C2: when send_callback is invoked, and in every POST body, the payload's
\* status is 'completed' or 'failed', never 'unknown'.
C2_StatusNeverUnknown ==
    /\ pc = "finally" => final_payload[1].status \in {"completed", "failed"}
    /\ \A i \in 1..Len(posts) : posts[i].body.status \in {"completed", "failed"}

C2_Witness ==
    /\ pc = "finally"
    /\ final_payload[1].status = "failed"
    /\ Len(stageLog) = 1

\* C3: the stages run in the order init, fetch, compute, export, package;
\* a stage starts only after all the previous ones returned; once a stage
\* raised no later stage starts, control is in the except clause or the
\* callback, and the callback is sent with the failed payload.
C3_StagesInOrder ==
    /\ Len(stageLog) <= Len(StageOrder)
    /\ \A i \in 1..Len(stageLog) : stageLog[i].stage = StageOrder[i]
    /\ \A i \in 1..(Len(stageLog) - 1) : stageLog[i].outcome = "ok"
    /\ \A i \in 1..Len(stageLog) :
          stageLog[i].outcome = "raised" =>
             /\ pc = "except" \/ InCallback
             /\ InCallback => final_payload[1].status = "failed"
             /\ \A j \in 1..Len(posts) : posts[j].body.status = "failed"

C3_Witness ==
    /\ Len(stageLog) = 3
    /\ stageLog[3].outcome = "raised"
    /\ Len(posts) > 0

\* C4: one send_callback call makes at most 3 POSTs; no POST follows a 2xx
\* response; a failed attempt is followed by another while fewer than 3 were
\* made; every attempt carries the same payload, the one built by the job.
C4_AtMostThreeAttempts ==
    /\ Len(posts) <= 3
    /\ \A i \in 1..(Len(posts) - 1) : posts[i].outcome # "200"
    /\ Cardinality({ i \in 1..Len(posts) : posts[i].outcome = "200" }) <= 1
    /\ \A i \in 1..Len(posts) : posts[i].body = final_payload[1]
    /\ ( /\ pc \in {"returned", "done"}
         /\ posts # << >>
         /\ posts[Len(posts)].outcome # "200" ) => Len(posts) = 3

C4_Witness ==
    /\ pc = "done"
    /\ Len(posts) = 3
    /\ posts[2].outcome = "ConnectError"
    /\ posts[3].outcome = "200"

\* C5: send_callback sleeps 1 s after the first failed attempt, 2 s after the
\* second and not at all after the third; with answers 500, 500, 200 the
\* third attempt succeeds after 1 s + 2 s of backoff.
C5_ExponentialBackoff ==
    LET failed == Cardinality({ i \in 1..Len(posts) : posts[i].outcome # "200" })
    IN  /\ Len(sleeps) = IF failed <= 2 THEN failed ELSE 2
        /\ Len(sleeps) >= 1 => sleeps[1] = 1
        /\ Len(sleeps) >= 2 => sleeps[2] = 2
        /\ Outcomes = << "500", "500", "200" >> =>
              /\ SeqSum(sleeps) >= 1 + 2
              /\ pc \in {"returned", "done"}

C5_Witness ==
    /\ Outcomes = << "500", "500", "200" >>
    /\ pc = "done"

\* C6: no exception escapes send_callback, neither when the identity token
\* cannot be obtained nor when every attempt fails, and none escapes
\* run_the_full_analysis.
C6_SendCallbackNeverRaises ==
    /\ ~cbRaised
    /\ ~crashed

C6_Witness ==
    /\ pc = "done"
    /\ BACKEND_ENV = "production"
    /\ posts = << >>

\* C7: a payload with status 'failed', when handed to send_callback and in
\* every POST body, has a non-empty error_message and no image_urls, metrics
\* or bounds.
FailedShape(p) ==
    p.status = "failed" =>
        /\ p.error_message # None
        /\ p.image_urls = None
        /\ p.metrics = None
        /\ p.bounds = None

C7_FailedPayloadIsBare ==
    /\ InCallback => FailedShape(final_payload[1])
    /\ \A i \in 1..Len(posts) : FailedShape(posts[i].body)

C7_Witness ==
    /\ Len(posts) > 0
    /\ posts[1].body.status = "failed"
    /\ Len(stageLog) = 4

\* C8: a payload has status 'completed' only if the five export tasks are
\* COMPLETED, and it then carries the URL of each of the five products, the
\* metrics record computed by the job, and the bounds.
CompletedShape(p) ==
    p.status = "completed" =>
        /\ \A k \in ProductSet : tasks[k] = "COMPLETED"
        /\ p.image_urls # None
        /\ DOMAIN p.image_urls[1] = ProductSet
        /\ \A k \in ProductSet :
              p.image_urls[1][k] =
                 public_url(blob_path(k, job.area_id, job.result_id, job.type))
        /\ p.metrics = Some(results[1].metrics)
        /\ p.bounds # None
        /\ Len(p.bounds[1]) = 4

C8_CompletedPayloadIsFull ==
    /\ InCallback => CompletedShape(final_payload[1])
    /\ \A i \in 1..Len(posts) : CompletedShape(posts[i].body)

C8_Witness ==
    /\ Len(posts) > 0
    /\ posts[1].body.status = "completed"

\* C9: no export task's status is read until all five products' tasks have
\* been started.
C9_FanOutBeforePolling ==
    polled # {} => \A k \in ProductSet : tasks[k] # "UNSUBMITTED"

\* C10: when an export task is FAILED or CANCELLED the wait loop is left at
\* once (no further submit, poll or packaging), the payload handed to the
\* callback is 'failed', and its message names that product and no other.
NamesOnly(p, k) ==
    /\ p.status = "failed"
    /\ Mentions(p.error_message, k)
    /\ \A k2 \in ProductSet \ {k} : ~Mentions(p.error_message, k2)

C10_ExportFailureNamesProduct ==
    \A k \in ProductSet :
        tasks[k] \in {"FAILED", "CANCELLED"} =>
            /\ pc = "except" \/ InCallback
            /\ InCallback => NamesOnly(final_payload[1], k)
            /\ \A i \in 1..Len(posts) : NamesOnly(posts[i].body, k)

C10_Witness ==
    /\ tasks["baseline_computed"] = "FAILED"
    /\ Len(posts) > 0
    /\ pc = "done"

\* C11: the export wait is bounded by one wall-clock budget for the whole
\* stage: as long as the stage is still submitting or polling, no more than
\* max_wait_seconds (and the one sleep that discovers the overrun) have gone
\* by since the stage began; beyond it the stage has raised its timeout.
C11_OneBudgetForTheStage ==
    pc \in {"export_submit", "export_poll"} =>
        clock <= max_wait_seconds + poll_interval
ChangeComputed == answers # None /\ results # None

scene == answers[1].scene

metrics == results[1].metrics

\* C15: at every pixel at most one of the loss, gain and stable masks is set
\* (the channels of the difference image), and a pixel that either
\* composite's validity mask excludes is in none of them.
C15_MasksDisjoint ==
    ChangeComputed =>
        \A i \in 1..Len(scene) :
            LET rgb == results[1].images.difference_image[i] IN
            /\ Cardinality({ c \in 1..3 : rgb[c] # 0 }) <= 1
            /\ ~(scene[i].bvalid /\ scene[i].cvalid) => rgb = << 0, 0, 0 >>

C15_Witness ==
    /\ ChangeComputed
    /\ \E i \in 1..Len(scene) : results[1].images.difference_image[i][1] = 255
    /\ \E i \in 1..Len(scene) :
          /\ scene[i].bvalid /\ ~scene[i].cvalid
          /\ scene[i].bclass = 1 /\ scene[i].cclass = 0

\* C16: total_hectares of every metrics record is exactly loss_hectares +
\* gain_hectares + stable_hectares, also when all three are zero.
C16_TotalIsTheSum ==
    ChangeComputed =>
        RatEq(metrics.total_hectares,
              RatAdd(RatAdd(metrics.loss_hectares, metrics.gain_hectares),
                     metrics.stable_hectares))
Hundred == Rat(100, 1)

Zero == Rat(0, 1)

\* C18: net_change_percentage is gain_percentage - loss_percentage, and
\* loss_percentage is loss_hectares / total_hectares * 100 (gain likewise);
\* when every pixel is valid in both composites, classified in the baseline
\* and not in the current one, they are 100, 0 and -100.
C18_NetChange ==
    ChangeComputed =>
        /\ RatEq(metrics.net_change_percentage,
                 RatSub(metrics.gain_percentage, metrics.loss_percentage))
        /\ RatEq(RatMul(metrics.loss_percentage, metrics.total_hectares),
                 RatMul(metrics.loss_hectares, Hundred))
        /\ RatEq(RatMul(metrics.gain_percentage, metrics.total_hectares),
                 RatMul(metrics.gain_hectares, Hundred))
        /\ (\A i \in 1..Len(scene) :
               /\ scene[i].bvalid /\ scene[i].cvalid
               /\ scene[i].bclass = 1 /\ scene[i].cclass = 0)
           => /\ RatEq(metrics.loss_percentage, Hundred)
              /\ RatEq(metrics.gain_percentage, Zero)
              /\ RatEq(metrics.net_change_percentage, RatSub(Zero, Hundred))

C18_Witness ==
    /\ ChangeComputed
    /\ scene = AllLoss
    /\ metrics.net_change_percentage = Rat(0 - 100, 1)

InPercentRange(x) == ~RatLt(x, Zero) /\ ~RatLt(Hundred, x)

\* C19: in every metrics record, baseline_cloud_coverage,
\* current_cloud_coverage and valid_pixels_percentage lie in [0, 100],
\* whatever pixel counts the platform returns.
C19_PercentagesInRange ==
    ChangeComputed =>
        /\ InPercentRange(metrics.baseline_cloud_coverage[1])
        /\ InPercentRange(metrics.current_cloud_coverage[1])
        /\ InPercentRange(metrics.valid_pixels_percentage[1])
\* the platform answered in full for a region where no pixel is unmasked in
\* both composites, and the job's type is one the worker classifies
EmptyIntersection ==
    /\ answers # None
    /\ answers[1].fault = "none"
    /\ \A i \in 1..Len(scene) : ~(scene[i].bvalid /\ scene[i].cvalid)
    /\ job.type \in {"forest", "water"}

\* C17: when the validity masks of the two composites have an empty
\* intersection, compute_change_products returns metrics whose hectares,
\* percentages and valid_pixels_percentage are all 0, and the job, if its
\* exports complete, reports 'completed'.
C17_ZeroChangeCompletes ==
    EmptyIntersection =>
        /\ results # None
        /\ \A f \in {"loss_hectares", "gain_hectares", "stable_hectares",
                     "total_hectares", "loss_percentage", "gain_percentage",
                     "net_change_percentage"} : RatEq(metrics[f], Zero)
        /\ RatEq(metrics.valid_pixels_percentage[1], Zero)
        /\ (InCallback /\ \A k \in ProductSet : tasks[k] = "COMPLETED")
              => final_payload[1].status = "completed"
\* C20: when the baseline window holds no imagery, the job ends 'failed' with
\* an error message that mentions the start and the end date of the baseline
\* window, neither the change computation nor the export was started, and the
\* callback was posted, within the retry budget.
C20_NoBaselineImagery ==
    (imagery \in {"no_baseline", "no_imagery"} /\ pc = "done") =>
        /\ final_payload[1].status = "failed"
        /\ Mentions(final_payload[1].error_message, "baseline_start")
        /\ Mentions(final_payload[1].error_message, "baseline_end")
        /\ \A i \in 1..Len(stageLog) :
              stageLog[i].stage \notin {"compute", "export", "package"}
        /\ Len(posts) \in 1..max_attempts
        /\ \A i \in 1..Len(posts) : posts[i].body = model_dump(final_payload[1])
\* C12: handling the same analysis-complete callback a second time, with the
\* report worker behaving as the first time, leaves the analysis results, the
\* monitoring areas and the set of generated reports as they were after the
\* first time.
C12_CallbackIdempotent ==
    [][ (lastCallback # None /\ lastCallback' = lastCallback) =>
            /\ analysis_results' = analysis_results
            /\ monitoring_areas' = monitoring_areas
            /\ reports' = reports ]_vars

C14_RequestCarriesResultId ==
    /\ \A i \in 1..Len(workerRequests) :
          {"area_id", "result_id", "polygon", "type", "is_baseline"}
              \subseteq DOMAIN workerRequests[i]
    /\ \A r \in DocIds :
          analysis_results[r] # None =>
              \E i \in 1..Len(workerRequests) :
                  /\ "result_id" \in DOMAIN workerRequests[i]
                  /\ workerRequests[i].result_id = r

\* the month before month mo of year y, and the days of a month
prev_month(y, mo) == IF mo = 1 THEN << y - 1, 12 >> ELSE << y, mo - 1 >>
month_days(ym) == { d \in Calendar : d[1] = ym[1] /\ d[2] = ym[2] }

\* C21: whatever 'now' is, the images queried for the current period are
\* those of every day of the previous calendar month, the images queried for
\* the baseline period are those of every day of the month before it, and
\* the baseline window ends before the current window begins.
C21_WholeMonths ==
    windows # None =>
        LET w == windows[1]
            current == prev_month(utcnow[1].year, utcnow[1].month)
            baseline == prev_month(current[1], current[2])
        IN  /\ collection_days(w.current_start, w.current_end)
                 = month_days(current)
            /\ collection_days(w.baseline_start, w.baseline_end)
                 = month_days(baseline)
            /\ DateLt(strftime(w.baseline_end), strftime(w.current_start))

\* C22 (as stated): a job whose classification type is neither 'forest' nor
\* 'water' ends 'failed' with a message that names the unsupported type, and
\* no export task was submitted.
C22_UnsupportedTypeFails ==
    (pc = "done" /\ job.type \notin {"forest", "water"}) =>
        /\ submitLog = << >>
        /\ final_payload[1].status = "failed"
        /\ Mentions(final_payload[1].error_message,
                    "Unsupported classification type: ")
        /\ Mentions(final_payload[1].error_message, job.type)

\* C22 (amended): a job whose classification type is neither 'forest' nor
\* 'water' never submits an export task, its callback payload and every POST
\* of it carry status 'failed', and when the job got as far as the classifier
\* (imagery was fetched) the message names the unsupported type; when an
\* earlier stage raised, the message is that stage's.
C22_UnsupportedTypeFailsAmended ==
    (payload # None /\ job.type \notin {"forest", "water"}) =>
        /\ submitLog = << >>
        /\ \A i \in 1..Len(stageLog) :
              stageLog[i].stage \notin {"export", "package"}
        /\ \A i \in 1..Len(posts) :
              /\ posts[i].body.status = "failed"
              /\ answers # None =>
                    /\ Mentions(posts[i].body.error_message,
                                "Unsupported classification type: ")
                    /\ Mentions(posts[i].body.error_message, job.type)
        /\ InCallback =>
              /\ final_payload[1].status = "failed"
              /\ answers # None =>
                    /\ Mentions(final_payload[1].error_message,
                                "Unsupported classification type: ")
                    /\ Mentions(final_payload[1].error_message, job.type)

C22_Witness ==
    /\ pc = "done"
    /\ job.type = "desert"
    /\ answers # None
    /\ Len(posts) >= 1
    /\ Mentions(posts[1].body.error_message, "desert")

\* C23: for every non-empty vertex list _build_geometry makes a closed ring
\* (first vertex = last vertex) of at least 4 points, which is the list itself
\* when it is closed already and the list with its first vertex appended
\* otherwise, and leaves the list it was given as it was; an empty list is
\* rejected with an error.
C23_ClosedRing ==
    geometry # None =>
        LET g == geometry[1] IN
        /\ polygon_list = g.arg
        /\ g.arg = << >> => g.raised # None /\ g.ring = None
        /\ g.arg # << >> =>
              /\ g.raised = None
              /\ g.ring # None
              /\ LET ring == g.ring[1]
                     closed == g.arg[1] = g.arg[Len(g.arg)]
                 IN  /\ ring[1] = ring[Len(ring)]
                     /\ ring = IF closed THEN g.arg ELSE Append(g.arg, g.arg[1])
                     /\ Len(ring) >= 4

\* C25: create_monitoring_area accepts a rectangle (does not answer 400)
\* exactly when its area is from 1 to 500 km2, both included; when it answers
\* 400 there is no area document, no analysis placeholder and no request to
\* the worker.
C25_SizeFrom1To500 ==
    (create_request # None /\ response # None
        /\ response[1].endpoint = "POST /monitoring-areas") =>
        LET a == area_km2(create_request[1].width_km,
                          create_request[1].height_km)
            in_range == ~RatLt(a, Rat(1, 1)) /\ ~RatLt(Rat(500, 1), a)
        IN  /\ response[1].code # 400 <=> in_range
            /\ response[1].code = 400 =>
                  /\ \A x \in StoredAreaIds : monitoring_areas[x] = None
                  /\ \A r \in DocIds : analysis_results[r] = None
                  /\ workerRequests = << >>

\* C24: once a monitoring area is soft-deleted, in every later state it can
\* be read by its id with status 'deleted' and is not in the list of areas,
\* whatever is handled afterwards, an analysis-complete callback for one of
\* its results included.
C24_DeletedStaysDeleted ==
    [][ \A a \in StoredAreaIds :
          (monitoring_areas[a] # None /\ monitoring_areas[a][1].status = "deleted")
          => /\ get_monitoring_area(monitoring_areas', a) # None
             /\ get_monitoring_area(monitoring_areas', a)[1].status = "deleted"
             /\ a \notin get_all_monitoring_areas(monitoring_areas') ]_vars

\* C26: a step that handles an analysis-complete callback for a result that
\* exists (the caller is authorised and Firestore answers) is answered 200;
\* it sets the result's processing_status to the callback's status, stores
\* image_urls, metrics and bounds when the status is 'completed' and
\* error_message when it is 'failed', sets the owning area's status to
\* 'active' on 'completed' and to 'error' on 'failed', whatever became of
\* the report generation, and changes no other result and no other area.
C26_CallbackProcessed ==
    [][ (/\ response' # None
         /\ response'[1].endpoint = "POST /callbacks/analysis-complete"
         /\ response'[1].result = "updated") =>
        /\ response'[1].code = 200
        /\ lastCallback' # None
        /\ LET p == lastCallback'[1].body
               r == p.result_id
               a == analysis_results[r][1].area_id
               doc == analysis_results'[r][1]
           IN  /\ analysis_results[r] # None
               /\ doc.processing_status = p.status
               /\ p.status = "completed" =>
                     /\ doc.image_urls = p.image_urls
                     /\ doc.metrics = p.metrics
                     /\ doc.bounds = p.bounds
                     /\ monitoring_areas'[a][1].status = "active"
               /\ p.status = "failed" =>
                     /\ doc.error_message = p.error_message
                     /\ monitoring_areas'[a][1].status = "error"
               /\ [ monitoring_areas'[a][1] EXCEPT
                      !.status = monitoring_areas[a][1].status ]
                    = monitoring_areas[a][1]
               /\ \A q \in DocIds \ {r} :
                     analysis_results'[q] = analysis_results[q]
               /\ \A b \in StoredAreaIds \ {a} :
                     monitoring_areas'[b] = monitoring_areas[b] ]_vars

C26_Witness ==
    /\ response # None
    /\ response[1].endpoint = "POST /callbacks/analysis-complete"
    /\ response[1].code = 200
    /\ lastCallback # None
    /\ lastCallback[1].report = "unreachable"
    /\ lastCallback[1].body.result_id = "p2"
    /\ analysis_results["p2"][1].processing_status = "completed"
    /\ analysis_results["p1"] # None
    /\ analysis_results["p1"][1].processing_status = "in_progress"
    /\ monitoring_areas["a1"][1].status = "active"
    /\ monitoring_areas["a0"][1].status = "pending"

\* C28: the processing_status of every stored analysis result is
\* 'in_progress', 'completed' or 'failed', whatever status string the
\* analysis-complete callbacks carried.
C28_ProcessingStatusValues ==
    \A r \in DocIds :
        analysis_results[r] # None =>
            analysis_results[r][1].processing_status
                \in {"in_progress", "completed", "failed"}

\* C29: when an area has several analyses and the callbacks of all of them
\* have been handled (each result is 'completed' or 'failed'), the status of
\* the area, unless it was deleted, is that of the analysis triggered last:
\* 'active' if it completed, 'error' if it failed.
C29_LatestAnalysisDecides ==
    \A a \in AreaIds :
        LET of_area == { r \in DocIds : analysis_results[r] # None
                                        /\ analysis_results[r][1].area_id = a }
        IN  (/\ Cardinality(of_area) >= 2
             /\ \A r \in of_area :
                   analysis_results[r][1].processing_status
                       \in {"completed", "failed"}
             /\ monitoring_areas[a][1].status # "deleted") =>
                monitoring_areas[a][1].status =
                    area_status(analysis_results[latest_result(analysis_results, a)[1]][1]
                                    .processing_status)

\* C27: no placeholder is left 'in_progress' for good.  Only an
\* analysis-complete callback takes a result out of 'in_progress', and only
\* a job of the worker sends one; so in a state where the worker was sent no
\* request and has no job, queued or running, nothing is left that would
\* settle a placeholder, and none may be 'in_progress' then.
C27_NoneLeftInProgress ==
    (pc = "idle" /\ workerRequests = << >>) =>
        \A r \in DocIds :
            analysis_results[r] # None =>
                analysis_results[r][1].processing_status # "in_progress"

\* C30: for every interleaving of two jobs, the flag _EE_INITIALIZED, the
\* one variable they share, only goes from false to true; a job is past
\* the initialisation only when the flag is true; a step of one job changes
\* no local of the other; and the callback payload a job posts is that of
\* its own request: its own result_id, 'completed' with its own image urls
\* exactly when its own stages completed, 'failed' otherwise.
C30_JobsIsolated ==
    [][ /\ EE_INITIALIZED => EE_INITIALIZED'
        /\ \A t \in Threads :
              /\ (threads'[t].pc = "stages" \/ threads'[t].stages # "none")
                    => EE_INITIALIZED'
              /\ threads'[t] # threads[t] =>
                    \A u \in Threads \ {t} : threads'[u] = threads[u]
              /\ threads'[t].posted # None =>
                    LET b == threads'[t].posted[1]
                        p == threads'[t].payload[1]
                    IN  /\ b.result_id = p.result_id
                        /\ b.status \in {"completed", "failed"}
                        /\ b.status = "completed" <=>
                              threads'[t].stages = "completed"
                        /\ b.status = "completed" =>
                              /\ b.image_urls =
                                   Some([ k \in ProductSet |->
                                            public_url(blob_path(k, p.area_id,
                                                p.result_id, p.type)) ])
                              /\ b.metrics = Some([ analysis_type |-> p.type ])
                        /\ b.status = "failed" => b.error_message # None ]_vars

\* both jobs read the flag before either set it, one initialisation failed
\* and the other succeeded; the jobs had different result ids
C30_Witness ==
    /\ threads # << >>
    /\ threads["t1"].pc = "done"
    /\ threads["t2"].pc = "done"
    /\ threads["t1"].ee = "failed"
    /\ threads["t2"].ee = "ok"
    /\ threads["t2"].posted[1].status = "completed"
    /\ threads["t1"].posted[1].result_id # threads["t2"].posted[1].result_id

====
